---- MODULE Spec2Model ----
(***************************************************************************)
(* Model of user_visit/models.py: RequestParser, UserVisitManager.record   *)
(* and the UserVisit table.                                                *)
(*                                                                         *)
(* Python strings are sequences of one-character strings ("" is << >>).    *)
(* An optional value (None or an object) is a sequence of length 0 or 1.   *)
(* A timestamp is a number of ticks; its calendar date is the day number   *)
(* (the lookup timestamp__date and timestamp.date() are taken in the same  *)
(* time zone).  The code reads the clock as timezone.now(), once, and as   *)
(* datetime.date.today(): the clock of the model is today's day number.    *)
(*                                                                         *)
(* record() reaches the table up to two times (get, then create or the     *)
(* filter().last() fallback); each access is one atomic step, and other    *)
(* request handlers and the deletion of a user may run between them.       *)
(*                                                                         *)
(* Spec is record() with the table; ParserSpec is RequestParser on its     *)
(* own: objects are built from requests and their hash and properties read.*)
(***************************************************************************)
EXTENDS Integers, Sequences, FiniteSets, TLC

\* ---------------------------------------------------------------- bounds
\* timestamps are 0..MaxTime
MaxTime == 2
\* ticks in one calendar day
TicksPerDay == 2
\* the UserVisit table receives at most MaxVisits rows in a behaviour
MaxVisits == 2

Procs == {"h1", "h2"}
Timestamps == 0..MaxTime

\* ---------------------------------------------------------------- values
None == << >>
Some(x) == <<x>>
EmptyStr == << >>

UserPks == {1, 2}
AnonymousUser == [pk |-> 0, is_anonymous |-> TRUE]
User(k) == [pk |-> k, is_anonymous |-> FALSE]

\* request.session: None, a session without a key yet, a session with a key
Sessions == {None, Some([session_key |-> None]), Some([session_key |-> Some(<<"s">>)])}
\* request.user: None, AnonymousUser, an authenticated user
RequestUsers == {None, Some(AnonymousUser)} \cup {Some(User(k)) : k \in UserPks}
ForwardedFors == {None, Some(<<"a", ",", "b">>)}
RemoteAddrs == {Some(<<"b">>)}
UserAgents == {None, Some(<<"m">>)}

AllRequests ==
    [session : Sessions,
     user : RequestUsers,
     headers : [X_Forwarded_For : ForwardedFors, User_Agent : UserAgents],
     META : [REMOTE_ADDR : RemoteAddrs]]

BaseRequest ==
    [session |-> Some([session_key |-> Some(<<"s">>)]),
     user |-> Some(User(1)),
     headers |-> [X_Forwarded_For |-> None, User_Agent |-> Some(<<"m">>)],
     META |-> [REMOTE_ADDR |-> Some(<<"b">>)]]

Differences(r, q) ==
    (IF r.session # q.session THEN 1 ELSE 0)
    + (IF r.user # q.user THEN 1 ELSE 0)
    + (IF r.headers.X_Forwarded_For # q.headers.X_Forwarded_For THEN 1 ELSE 0)
    + (IF r.headers.User_Agent # q.headers.User_Agent THEN 1 ELSE 0)
    + (IF r.META.REMOTE_ADDR # q.META.REMOTE_ADDR THEN 1 ELSE 0)

\* the requests the handlers receive: the base request with at most one
\* attribute changed
Requests == {r \in AllRequests : Differences(r, BaseRequest) <= 1}

\* the calls of record(request, timestamp) and record(request): the base
\* request with timestamp 0, with at most one attribute or the timestamp
\* changed, or the timestamp left out
Inputs ==
    {i \in Requests \X BOOLEAN \X Timestamps :
        /\ ~i[2] => i[3] = 0
        /\ Differences(i[1], BaseRequest) + (IF i[3] # 0 THEN 1 ELSE 0) <= 1}

\* ---------------------------------------------------------------- RequestParser
\* datetime.date(), timestamp__date
date(t) == t \div TicksPerDay

\* faulty variant: the constructor does not look at is_anonymous
InitError_NoAnonymous(request) ==
    IF request.session = None THEN "Request object has no session."
    ELSE IF request.user = None THEN "Request object has no user."
    ELSE ""

\* the ValueError RequestParser.__init__ raises, "" when it raises none
InitError(request) ==
    IF request.session = None THEN "Request object has no session."
    ELSE IF request.user = None THEN "Request object has no user."
    ELSE IF request.user[1].is_anonymous THEN "Request user is anonymous."
    ELSE ""

\* faulty variant: the date is a constant of the class, not the clock's reading
RequestParser_StaleDate(request, today) == [request |-> request, date |-> 0]

\* the parser object: the request and the date of its construction
RequestParser(request, today) == [request |-> request, date |-> today]

\* x.split(",")[0]
split0(x) ==
    LET commas == {i \in 1..Len(x) : x[i] = ","}
    IN IF commas = {} THEN x
       ELSE SubSeq(x, 1, (CHOOSE i \in commas : \A j \in commas : i <= j) - 1)

\* faulty variant: REMOTE_ADDR is preferred to the X-Forwarded-For header
remote_addr_MetaFirst(parser) ==
    LET x_forwarded_for == parser.request.headers.X_Forwarded_For
        meta == parser.request.META.REMOTE_ADDR
    IN IF meta # None THEN meta[1]
       ELSE IF x_forwarded_for # None /\ x_forwarded_for[1] # EmptyStr
       THEN split0(x_forwarded_for[1])
       ELSE EmptyStr

remote_addr(parser) ==
    LET x_forwarded_for == parser.request.headers.X_Forwarded_For
        meta == parser.request.META.REMOTE_ADDR
    IN IF x_forwarded_for # None /\ x_forwarded_for[1] # EmptyStr
       THEN split0(x_forwarded_for[1])
       ELSE IF meta # None THEN meta[1] ELSE EmptyStr

session_key(parser) ==
    LET k == parser.request.session[1].session_key
    IN IF k # None /\ k[1] # EmptyStr THEN k[1] ELSE EmptyStr

ua_string(parser) ==
    LET h == parser.request.headers.User_Agent
    IN IF h # None THEN h[1] ELSE EmptyStr

user(parser) == parser.request.user[1]

\* a ^ b on non-negative integers
RECURSIVE Xor(_, _)
Xor(a, b) ==
    IF a = 0 THEN b
    ELSE IF b = 0 THEN a
    ELSE ((a + b) % 2) + 2 * Xor(a \div 2, b \div 2)

\* hash() of an int is the int (pks are below 16)
HashInt(n) == n

\* hash() of a date: one value per date, apart from the bits of the other hashes
HashDate(d) == 16 * (d + 1)

\* hash() of a str: 0 for "", otherwise one value per string, apart from the
\* bits of the other hashes (one bit per character of the alphabet for the
\* first character, the rest of the string above them)
Ord(ch) ==
    IF ch = "a" THEN 1
    ELSE IF ch = "b" THEN 2
    ELSE IF ch = "m" THEN 4
    ELSE IF ch = "," THEN 8
    ELSE 16

RECURSIVE StrCode(_)
StrCode(x) == IF x = << >> THEN 0 ELSE Ord(Head(x)) + 32 * StrCode(Tail(x))

HashStr(x) == 64 * StrCode(x)

\* RequestParser.__hash__
hash(parser) ==
    Xor(Xor(Xor(Xor(HashInt(user(parser).pk), HashDate(parser.date)),
                HashStr(remote_addr(parser))),
            HashStr(session_key(parser))),
        HashStr(ua_string(parser)))

\* str() of a non-negative int
RECURSIVE str(_)
str(n) ==
    LET digit == <<"0", "1", "2", "3", "4", "5", "6", "7", "8", "9">>[(n % 10) + 1]
    IN IF n < 10 THEN <<digit>> ELSE Append(str(n \div 10), digit)

\* faulty variant: the key leaves the user out
cache_key_Constant(parser) ==
    <<"u", "s", "e", "r", "_", "v", "i", "s", "i", "t", ":">>

\* f"user_visit:{self.user.pk}"
cache_key(parser) ==
    <<"u", "s", "e", "r", "_", "v", "i", "s", "i", "t", ":">> \o str(user(parser).pk)

\* ---------------------------------------------------------------- state
VARIABLES
    today,        \* the clock: datetime.date.today()
    default_ts,   \* the default of record()'s timestamp parameter
    users,        \* pks of the rows of the user table
    store,        \* the UserVisit rows, in pk order
    next_id,      \* the next pk of the UserVisit table
    pc,           \* per handler: idle, get, create, filter, done
    call,         \* per handler: the arguments and the parser of its record()
    ret,          \* per handler: what its record() returned or raised
    interleaved,  \* some step ran between the steps of an invocation
    log,          \* while not interleaved: per fingerprint and date, the first
                  \* completed invocation (its timestamp and what it returned)
    misses,       \* per fingerprint and date, the lookups that found the table without a row
    parsers,      \* RequestParser objects built outside record(), if any
    reads         \* per such object: its hash and its properties as last read

vars == <<today, default_ts, users, store, next_id, pc, call, ret, interleaved, log,
          misses, parsers, reads>>

ParserNames == {"x", "y"}

NoCall == [request |-> BaseRequest, timestamp |-> 0, date |-> 0]
NoRet == [kind |-> "", uv |-> None]

InFlight(p) == pc[p] \in {"get", "create", "filter"}

Init ==
    /\ today = 0
    /\ default_ts = 0
    /\ users = UserPks
    /\ store = << >>
    /\ next_id = 1
    /\ pc = [p \in Procs |-> "idle"]
    /\ call = [p \in Procs |-> NoCall]
    /\ ret = [p \in Procs |-> NoRet]
    /\ interleaved = FALSE
    /\ log = {}
    /\ misses = {}
    /\ parsers = [k \in ParserNames |-> None]
    /\ reads = [k \in ParserNames |-> None]

\* ---------------------------------------------------------------- the table
\* faulty variant: the lookup compares the timestamp itself, not its date
Filter_ExactTimestamp(s, c) ==
    LET parser == RequestParser(c.request, c.date)
    IN SelectSeq(s, LAMBDA r :
           /\ r.user = c.request.user[1].pk
           /\ r.timestamp = c.timestamp
           /\ r.session_key = session_key(parser)
           /\ r.ua_string = ua_string(parser)
           /\ r.remote_addr = remote_addr(parser))

\* faulty variant: the lookup leaves the date out
Filter_NoDate(s, c) ==
    LET parser == RequestParser(c.request, c.date)
    IN SelectSeq(s, LAMBDA r :
           /\ r.user = c.request.user[1].pk
           /\ r.session_key = session_key(parser)
           /\ r.ua_string = ua_string(parser)
           /\ r.remote_addr = remote_addr(parser))

\* faulty variant: the lookup leaves the user agent out
Filter_NoUserAgent(s, c) ==
    LET parser == RequestParser(c.request, c.date)
    IN SelectSeq(s, LAMBDA r :
           /\ r.user = c.request.user[1].pk
           /\ date(r.timestamp) = date(c.timestamp)
           /\ r.session_key = session_key(parser)
           /\ r.remote_addr = remote_addr(parser))

\* the filter of the get and of the fallback query
\* faulty variant: the lookup takes the date from the parser, not from the timestamp
Filter_ParserDate(s, c) ==
    LET parser == RequestParser(c.request, c.date)
    IN SelectSeq(s, LAMBDA r :
           /\ r.user = c.request.user[1].pk
           /\ date(r.timestamp) = parser.date
           /\ r.session_key = session_key(parser)
           /\ r.ua_string = ua_string(parser)
           /\ r.remote_addr = remote_addr(parser))

Filter(s, c) ==
    LET parser == RequestParser(c.request, c.date)
    IN SelectSeq(s, LAMBDA r :
           /\ r.user = c.request.user[1].pk
           /\ date(r.timestamp) = date(c.timestamp)
           /\ r.session_key = session_key(parser)
           /\ r.ua_string = ua_string(parser)
           /\ r.remote_addr = remote_addr(parser))

\* faulty variant: the lookup never sees a row
objects_get_NeverFound(found) == "DoesNotExist"

\* faulty variant: several rows are taken for none
objects_get_NoMultiple(found) ==
    IF Len(found) = 1 THEN "found" ELSE "DoesNotExist"

\* QuerySet.get: the row, DoesNotExist or MultipleObjectsReturned
objects_get(found) ==
    IF Len(found) = 1 THEN "found"
    ELSE IF Len(found) = 0 THEN "DoesNotExist"
    ELSE "MultipleObjectsReturned"

\* faulty variant: create() is not given the timestamp, and the field's default applies
NewVisit_FieldDefault(c, id) ==
    LET parser == RequestParser(c.request, c.date)
    IN [id |-> id,
        uuid |-> id,
        user |-> c.request.user[1].pk,
        timestamp |-> today * TicksPerDay,
        session_key |-> session_key(parser),
        ua_string |-> ua_string(parser),
        remote_addr |-> remote_addr(parser)]

\* faulty variant: create() is given ua_string and remote_addr in each other's place
NewVisit_SwappedFields(c, id) ==
    LET parser == RequestParser(c.request, c.date)
    IN [id |-> id,
        uuid |-> id,
        user |-> c.request.user[1].pk,
        timestamp |-> c.timestamp,
        session_key |-> session_key(parser),
        ua_string |-> remote_addr(parser),
        remote_addr |-> ua_string(parser)]

\* the row UserVisit.objects.create inserts (uuid4 is a value no other row
\* has: the row's own pk stands for it)
NewVisit(c, id) ==
    LET parser == RequestParser(c.request, c.date)
    IN [id |-> id,
        uuid |-> id,
        user |-> c.request.user[1].pk,
        timestamp |-> c.timestamp,
        session_key |-> session_key(parser),
        ua_string |-> ua_string(parser),
        remote_addr |-> remote_addr(parser)]

\* faulty variant: first() for last()
Last_First(s) == IF s = << >> THEN None ELSE Some(s[1])

\* QuerySet.last(): the row of the highest pk, None when there is none
Last(s) == IF s = << >> THEN None ELSE Some(s[Len(s)])

\* faulty variant: the deletion empties the table
Cascade_All(s, u) == << >>

\* on_delete=models.CASCADE
Cascade(s, u) == SelectSeq(s, LAMBDA r : r.user # u)

\* ---------------------------------------------------------------- history
\* the fingerprint and date a call is about
CallKey(c) ==
    LET parser == RequestParser(c.request, c.date)
    IN [user |-> c.request.user[1].pk,
        date |-> date(c.timestamp),
        session_key |-> session_key(parser),
        ua_string |-> ua_string(parser),
        remote_addr |-> remote_addr(parser)]

\* the log after the invocation c has completed with r
Logged(c, r) ==
    IF interleaved \/ \E f \in log : f.key = CallKey(c) THEN log
    ELSE log \cup {[key |-> CallKey(c), timestamp |-> c.timestamp, ret |-> r]}

\* the lookups counted for the fingerprint and date k
Misses(k) ==
    IF \E m \in misses : m.key = k
    THEN (CHOOSE m \in misses : m.key = k).n
    ELSE 0

\* the count after the lookup of the invocation c has found no row (the
\* fingerprints of a deleted user have no rows, and are not counted)
Missed(c) ==
    LET k == CallKey(c)
    IN IF k.user \in users
       THEN {m \in misses : m.key # k} \cup {[key |-> k, n |-> Misses(k) + 1]}
       ELSE misses

\* ---------------------------------------------------------------- record()
\* the timestamp record() works with: the argument, or the parameter's default
Timestamp(explicit, t) == IF explicit THEN t ELSE default_ts

\* the bound of the model: a call is taken only while the table has room for
\* the row it and every call in flight may insert (a call that finds its row
\* in the table inserts none)
Room(request, timestamp) ==
    IF InitError(request) # "" THEN TRUE
    ELSE IF Filter(store, [request |-> request, timestamp |-> timestamp, date |-> today]) # << >>
    THEN TRUE
    ELSE next_id + Cardinality({q \in Procs : pc[q] \in {"get", "create"}}) <= MaxVisits

\* line 107: the call and the construction of the parser
Call(p, request, explicit, t) ==
    /\ pc[p] = "idle"
    \* an authenticated request.user is a row of the user table
    /\ (request.user # None /\ ~request.user[1].is_anonymous)
          => request.user[1].pk \in users
    /\ Room(request, Timestamp(explicit, t))
    /\ call' = [call EXCEPT ![p] =
                   [request |-> request,
                    timestamp |-> Timestamp(explicit, t),
                    date |-> RequestParser(request, today).date]]
    /\ IF InitError(request) # ""
       THEN /\ pc' = [pc EXCEPT ![p] = "done"]
            /\ ret' = [ret EXCEPT ![p] = [kind |-> "ValueError", uv |-> None]]
       ELSE /\ pc' = [pc EXCEPT ![p] = "get"]
            /\ ret' = [ret EXCEPT ![p] = NoRet]
    /\ interleaved' = (interleaved \/ \E q \in Procs \ {p} : InFlight(q))
    /\ log' = IF interleaved' THEN {} ELSE log
    /\ UNCHANGED <<today, default_ts, users, store, next_id, misses>>
    /\ UNCHANGED <<parsers, reads>>

\* lines 108-116, 125: UserVisit.objects.get
Get(p) ==
    /\ pc[p] = "get"
    /\ LET found == Filter(store, call[p])
           outcome == objects_get(found)
           uv == [kind |-> "UserVisit", uv |-> Some(found[1])]
       IN /\ IF outcome = "found"
             THEN /\ pc' = [pc EXCEPT ![p] = "done"]
                  /\ ret' = [ret EXCEPT ![p] = uv]
                  /\ log' = Logged(call[p], uv)
             ELSE /\ pc' = [pc EXCEPT ![p] =
                               IF outcome = "DoesNotExist" THEN "create" ELSE "filter"]
                  /\ UNCHANGED <<ret, log>>
          /\ misses' = IF found = << >> THEN Missed(call[p]) ELSE misses
    /\ UNCHANGED <<today, default_ts, users, store, next_id, call, interleaved>>
    /\ UNCHANGED <<parsers, reads>>

\* lines 117-123: UserVisit.objects.create; the foreign key needs the user's row
Create(p) ==
    /\ pc[p] = "create"
    /\ pc' = [pc EXCEPT ![p] = "done"]
    /\ IF call[p].request.user[1].pk \in users
       THEN LET uv == NewVisit(call[p], next_id)
                r == [kind |-> "UserVisit", uv |-> Some(uv)]
            IN /\ store' = Append(store, uv)
               /\ next_id' = next_id + 1
               /\ ret' = [ret EXCEPT ![p] = r]
               /\ log' = Logged(call[p], r)
       ELSE /\ ret' = [ret EXCEPT ![p] = [kind |-> "IntegrityError", uv |-> None]]
            /\ UNCHANGED <<store, next_id, log>>
    /\ UNCHANGED <<today, default_ts, users, call, interleaved, misses>>
    /\ UNCHANGED <<parsers, reads>>

\* lines 126-132: UserVisit.objects.filter(...).last()
FilterLast(p) ==
    /\ pc[p] = "filter"
    /\ pc' = [pc EXCEPT ![p] = "done"]
    /\ LET uv == Last(Filter(store, call[p]))
           r == [kind |-> IF uv = None THEN "None" ELSE "UserVisit", uv |-> uv]
       IN /\ ret' = [ret EXCEPT ![p] = r]
          /\ log' = Logged(call[p], r)
    /\ UNCHANGED <<today, default_ts, users, store, next_id, call, interleaved, misses>>
    /\ UNCHANGED <<parsers, reads>>

\* line 133: the caller takes the result
Return(p) ==
    /\ pc[p] = "done"
    /\ pc' = [pc EXCEPT ![p] = "idle"]
    /\ call' = [call EXCEPT ![p] = NoCall]
    /\ ret' = [ret EXCEPT ![p] = NoRet]
    /\ UNCHANGED <<today, default_ts, users, store, next_id, interleaved, log, misses>>
    /\ UNCHANGED <<parsers, reads>>

\* the owning user is deleted: its visits go with it
DeleteUser(u) ==
    /\ u \in users
    /\ users' = users \ {u}
    /\ store' = Cascade(store, u)
    /\ interleaved' = (interleaved \/ \E q \in Procs : InFlight(q))
    /\ log' = IF interleaved' THEN {} ELSE {f \in log : f.key.user # u}
    /\ misses' = {m \in misses : m.key.user # u}
    /\ UNCHANGED <<today, default_ts, next_id, pc, call, ret>>
    /\ UNCHANGED <<parsers, reads>>

\* midnight passes
Tick ==
    /\ today < date(MaxTime)
    /\ today' = today + 1
    /\ UNCHANGED <<default_ts, users, store, next_id, pc, call, ret, interleaved, log, misses>>
    /\ UNCHANGED <<parsers, reads>>

Next ==
    \/ \E p \in Procs, i \in Inputs : Call(p, i[1], i[2], i[3])
    \/ \E p \in Procs : Get(p)
    \/ \E p \in Procs : Create(p)
    \/ \E p \in Procs : FilterLast(p)
    \/ \E p \in Procs : Return(p)
    \/ \E u \in UserPks : DeleteUser(u)
    \/ Tick

Spec == Init /\ [][Next]_vars

\* ---------------------------------------------------------------- parsers on their own
\* the requests RequestParser accepts, over wider sets of attribute values
ParserUserPks == {1, 12}
ParserSessions == {Some([session_key |-> k]) : k \in {None, Some(<<"a">>), Some(<<"b">>)}}
ParserForwardedFors == {None, Some(EmptyStr), Some(<<"a", ",", " ", "b">>)}
ParserRemoteAddrs == {None, Some(<<"b">>)}

ParserRequests ==
    {r \in [session : ParserSessions,
            user : {Some(User(k)) : k \in ParserUserPks},
            headers : [X_Forwarded_For : ParserForwardedFors, User_Agent : UserAgents],
            META : [REMOTE_ADDR : ParserRemoteAddrs]] : InitError(r) = ""}

\* RequestParser(request)
Construct(k, request) ==
    /\ parsers' = [parsers EXCEPT ![k] = Some(RequestParser(request, today))]
    /\ reads' = [reads EXCEPT ![k] = None]
    /\ UNCHANGED <<today, default_ts, users, store, next_id, pc, call, ret,
                   interleaved, log, misses>>

\* hash(parser) and the properties of parser are read
Read(k) ==
    /\ parsers[k] # None
    /\ LET parser == parsers[k][1]
       IN reads' = [reads EXCEPT ![k] =
                       Some([hash |-> hash(parser),
                             user |-> user(parser),
                             date |-> parser.date,
                             remote_addr |-> remote_addr(parser),
                             session_key |-> session_key(parser),
                             ua_string |-> ua_string(parser),
                             cache_key |-> cache_key(parser)])]
    /\ UNCHANGED <<today, default_ts, users, store, next_id, pc, call, ret,
                   interleaved, log, misses, parsers>>

ParserNext ==
    \/ \E k \in ParserNames, request \in ParserRequests : Construct(k, request)
    \/ \E k \in ParserNames : Read(k)
    \/ Tick

ParserSpec == Init /\ [][ParserNext]_vars

\* ---------------------------------------------------------------- properties
Rows(s) == {s[i] : i \in 1..Len(s)}

\* the fingerprint and date of a row
RowKey(r) ==
    [user |-> r.user,
     date |-> date(r.timestamp),
     session_key |-> r.session_key,
     ua_string |-> r.ua_string,
     remote_addr |-> r.remote_addr]

\* the rows of the fingerprint and date k, in pk order
RowsOf(s, k) == SelectSeq(s, LAMBDA r : RowKey(r) = k)

\* the request has a session and an authenticated user
Authenticated(request) ==
    /\ request.session # None
    /\ request.user # None
    /\ ~request.user[1].is_anonymous

\* the handler p has completed a record() of an authenticated request whose
\* user is still there
Completed(p) ==
    /\ pc[p] = "done"
    /\ Authenticated(call[p].request)
    /\ call[p].request.user[1].pk \in users

SameFingerprint(k, l) ==
    /\ k.user = l.user
    /\ k.session_key = l.session_key
    /\ k.ua_string = l.ua_string
    /\ k.remote_addr = l.remote_addr

\* C1: idempotence. While invocations run one after another, every completed
\* invocation leaves exactly one row of its fingerprint and date in the table
\* and returns it, that row is the one the first invocation of that
\* fingerprint and date returned, and its timestamp is the timestamp given
\* to that first invocation.
C1_Idempotence ==
    \A p \in Procs :
        (Completed(p) /\ ~interleaved) =>
            /\ ret[p].kind = "UserVisit"
            /\ RowsOf(store, CallKey(call[p])) = <<ret[p].uv[1]>>
            /\ \E f \in log :
                  /\ f.key = CallKey(call[p])
                  /\ f.ret = ret[p]
                  /\ ret[p].uv[1].timestamp = f.timestamp

\* a later invocation, with another timestamp of the same date, has returned
\* the row of the first
C1_Witness ==
    \E p \in Procs :
        /\ Completed(p) /\ ~interleaved
        /\ ret[p].kind = "UserVisit"
        /\ ret[p].uv[1].timestamp # call[p].timestamp
        /\ date(ret[p].uv[1].timestamp) = date(call[p].timestamp)

\* C2: uniqueness. From the empty table, while invocations do not overlap,
\* the table holds at most one row per (user, date, session_key, remote_addr,
\* ua_string).
C2_Uniqueness ==
    ~interleaved =>
        \A i, j \in 1..Len(store) :
            i < j => RowKey(store[i]) # RowKey(store[j])

\* two rows are in the table and a repeated invocation has inserted none
C2_Witness ==
    /\ ~interleaved
    /\ Len(store) = 2
    /\ \E p \in Procs :
          /\ Completed(p)
          /\ ret[p].kind = "UserVisit"
          /\ ret[p].uv[1].id < next_id - 1

\* C4: day rollover. Two invocations of one fingerprint with timestamps on
\* different dates have returned two distinct rows of the table, each with
\* the timestamp given to the invocation that created it.
C4_DayRollover ==
    ~interleaved =>
        \A f, g \in log :
            (SameFingerprint(f.key, g.key) /\ f.key.date # g.key.date) =>
                /\ f.ret.kind = "UserVisit" /\ g.ret.kind = "UserVisit"
                /\ f.ret.uv[1] \in Rows(store) /\ g.ret.uv[1] \in Rows(store)
                /\ f.ret.uv[1].id # g.ret.uv[1].id
                /\ f.ret.uv[1].timestamp = f.timestamp
                /\ g.ret.uv[1].timestamp = g.timestamp

\* one fingerprint has been recorded on two dates
C4_Witness ==
    /\ ~interleaved
    /\ \E f, g \in log :
          SameFingerprint(f.key, g.key) /\ f.key.date # g.key.date

\* the row r has the session_key, remote_addr and ua_string of the call c
FieldsMatch(c, r) ==
    LET parser == RequestParser(c.request, c.date)
    IN /\ r.session_key = session_key(parser)
       /\ r.remote_addr = remote_addr(parser)
       /\ r.ua_string = ua_string(parser)

\* the rows of the user and the date of the call c
SameUserAndDate(s, c) ==
    {r \in Rows(s) : r.user = c.request.user[1].pk
                     /\ date(r.timestamp) = date(c.timestamp)}

\* C3: discrimination. An invocation whose session_key, remote_addr or
\* ua_string differs from every row of its user and date takes the create
\* branch, inserts one row with a fresh id and uuid and the request's fields,
\* and returns it; and no invocation returns a row that differs from its
\* request in one of the three fields.
C3_Discrimination ==
    [][\A p \in Procs :
          LET c == call[p]
              new == ret'[p].uv[1]
          IN /\ (/\ pc[p] = "get" /\ pc'[p] # "get"
                 /\ \A r \in SameUserAndDate(store, c) : ~FieldsMatch(c, r))
                    => (pc'[p] = "create" /\ store' = store)
             /\ (/\ pc[p] = "create" /\ pc'[p] # "create"
                 /\ c.request.user[1].pk \in users
                 /\ \A r \in SameUserAndDate(store, c) : ~FieldsMatch(c, r))
                    => /\ pc'[p] = "done"
                       /\ ret'[p].kind = "UserVisit"
                       /\ store' = Append(store, new)
                       /\ \A r \in Rows(store) : r.id # new.id /\ r.uuid # new.uuid
                       /\ new \in SameUserAndDate(store', c)
                       /\ FieldsMatch(c, new)
             /\ (pc'[p] = "done" /\ ret'[p].kind = "UserVisit")
                    => FieldsMatch(call'[p], ret'[p].uv[1])
      ]_vars

\* a second row of the same user and date, differing from the first in
\* exactly one of the three fields, has been created and returned
C3_Witness ==
    /\ Len(store) = 2
    /\ store[1].user = store[2].user
    /\ date(store[1].timestamp) = date(store[2].timestamp)
    /\ Cardinality({f \in {"session_key", "remote_addr", "ua_string"} :
                       store[1][f] # store[2][f]}) = 1
    /\ \E p \in Procs : Completed(p) /\ ret[p].uv = Some(store[2])

\* C5: precondition enforcement. A record() on a request with no session, no
\* user or an anonymous user ends at the construction of the parser with the
\* ValueError, before any access to the table, and leaves the table as it was.
C5_Precondition ==
    [][\A p \in Procs :
          (pc[p] = "idle" /\ pc'[p] # "idle" /\ ~Authenticated(call'[p].request))
             => /\ pc'[p] = "done"
                /\ ret'[p] = [kind |-> "ValueError", uv |-> None]
                /\ store' = store
                /\ next_id' = next_id
      ]_vars

\* the three kinds of failing request have failed, with rows in the table
C5_Witness ==
    /\ store # << >>
    /\ \E p, q \in Procs :
          /\ pc[p] = "done" /\ ret[p].kind = "ValueError"
          /\ pc[q] = "done" /\ ret[q].kind = "ValueError"
          /\ call[p].request.session = None
          /\ call[q].request.user = Some(AnonymousUser)

\* C6: race tolerance. When the table holds two or more rows of the
\* fingerprint and date of a call, its get leads to the fallback without
\* touching the table, and the fallback returns the row of the highest pk
\* (the most recently created) and inserts nothing.
C6_RaceTolerance ==
    [][\A p \in Procs :
          LET m == RowsOf(store, CallKey(call[p]))
          IN /\ (pc[p] = "get" /\ pc'[p] # "get" /\ Len(m) >= 2)
                   => (pc'[p] = "filter" /\ store' = store)
             /\ (pc[p] = "filter" /\ pc'[p] # "filter" /\ Len(m) >= 2)
                   => /\ pc'[p] = "done"
                      /\ ret'[p].kind = "UserVisit"
                      /\ ret'[p].uv[1] \in Rows(m)
                      /\ \A r \in Rows(m) : r.id <= ret'[p].uv[1].id
                      /\ store' = store
      ]_vars

\* with two rows of its fingerprint and date in the table, an invocation of
\* another timestamp has returned the newer one
C6_Witness ==
    \E p \in Procs :
        /\ Completed(p)
        /\ Len(RowsOf(store, CallKey(call[p]))) = 2
        /\ ret[p].uv = Some(RowsOf(store, CallKey(call[p]))[2])
        /\ \A r \in Rows(store) : r.timestamp # call[p].timestamp

\* C7 (as claimed): a record() of an authenticated request that returns,
\* returns a UserVisit and never None (a failure of the table propagates).
C7_NeverNone ==
    \A p \in Procs :
        (pc[p] = "done" /\ Authenticated(call[p].request))
            => \/ ret[p].kind = "IntegrityError"
               \/ (ret[p].kind = "UserVisit" /\ ret[p].uv # None)

\* C8: once a fingerprint and date has two or more rows and no invocation of
\* it is still to create, and while its user is there, the rows of that
\* fingerprint and date stay as they are and every invocation of it that
\* returns, returns the most recently created of them.
C8_Settled ==
    [][\A r \in Rows(store) :
          LET k == RowKey(r)
              m == RowsOf(store, k)
          IN (/\ Len(m) >= 2
              /\ r.user \in users'
              /\ \A q \in Procs : ~(pc[q] = "create" /\ CallKey(call[q]) = k))
                 => /\ RowsOf(store', k) = m
                    /\ \A p \in Procs :
                          (/\ pc[p] \in {"get", "filter"}
                           /\ CallKey(call[p]) = k
                           /\ pc'[p] \notin {"get", "filter"})
                             => /\ pc'[p] = "done"
                                /\ ret'[p] = [kind |-> "UserVisit", uv |-> Some(m[Len(m)])]
      ]_vars

\* two invocations whose lookups ran before either's create have inserted two
\* rows of one fingerprint and date, and both handlers have since returned
\* the same row for it
C8_Witness ==
    /\ interleaved
    /\ \E p, q \in Procs :
          /\ p # q
          /\ Completed(p) /\ Completed(q)
          /\ CallKey(call[p]) = CallKey(call[q])
          /\ Len(RowsOf(store, CallKey(call[p]))) = 2
          /\ ret[p] = ret[q]
          /\ ret[p].uv = Some(store[Len(store)])

\* C9 (as claimed): a record() without a timestamp works with the time of the
\* call, so its timestamp falls on the day of the call.
C9_DefaultIsNow ==
    [][\A p \in Procs, request \in Requests :
          Call(p, request, FALSE, 0) => date(call'[p].timestamp) = today
      ]_vars

\* C10: immutability and lifecycle. A row leaves the table only in the step
\* that deletes its user; a row that stays keeps every field; and a step that
\* deletes no user leaves the table as it is or is the create of an
\* invocation, which appends one row with a fresh id and uuid.
C10_Immutable ==
    [][/\ \A r \in Rows(store) :
             r \in Rows(store') \/ (r.user \in users /\ r.user \notin users')
       /\ \A r \in Rows(store') :
             r \in Rows(store) \/ \A o \in Rows(store) : o.id # r.id /\ o.uuid # r.uuid
       /\ (users' = users)
             => \/ store' = store
                \/ /\ Len(store') = Len(store) + 1
                   /\ SubSeq(store', 1, Len(store)) = store
                   /\ \E p \in Procs : pc[p] = "create" /\ pc'[p] = "done"
      ]_vars

\* a user has been deleted with its row while the row of the other user
\* stays, and a later invocation has found that row unchanged
C10_Witness ==
    /\ Cardinality(users) = 1
    /\ next_id = 3
    /\ Len(store) = 1
    /\ \E p \in Procs :
          /\ Completed(p)
          /\ ret[p].uv = Some(store[1])
          /\ call[p].timestamp # store[1].timestamp

\* C13: creation copies the fingerprint. The row the create branch inserts
\* has the request's user, the session's key ("" when it has none), the
\* derived remote_addr, the User-Agent header ("" when absent) and the given
\* timestamp; and a lookup with the same request and any timestamp of the
\* same date then finds that row, and only it if the key had no row before.
C13_CreationCopies ==
    [][\A p \in Procs :
          (pc[p] = "create" /\ pc'[p] = "done" /\ ret'[p].kind = "UserVisit")
             => LET c == call[p]
                    new == ret'[p].uv[1]
                    key == c.request.session[1].session_key
                    agent == c.request.headers.User_Agent
                IN /\ new.user = c.request.user[1].pk
                   /\ new.session_key = (IF key = None THEN EmptyStr ELSE key[1])
                   /\ new.ua_string = (IF agent = None THEN EmptyStr ELSE agent[1])
                   /\ new.remote_addr = remote_addr(RequestParser(c.request, c.date))
                   /\ new.timestamp = c.timestamp
                   /\ \A t \in Timestamps :
                         date(t) = date(c.timestamp)
                            => LET found == Filter(store', [c EXCEPT !.timestamp = t])
                               IN /\ new \in Rows(found)
                                  /\ RowsOf(store, CallKey(c)) = << >> => found = <<new>>
      ]_vars

\* a row has been created for a session without a key, and one for a request
\* without a User-Agent
C13_Witness ==
    /\ Len(store) = 2
    /\ \E i, j \in 1..2 :
          /\ store[i].session_key = EmptyStr /\ store[i].ua_string # EmptyStr
          /\ store[j].ua_string = EmptyStr /\ store[j].session_key # EmptyStr
    /\ \E p \in Procs : Completed(p) /\ ret[p].uv = Some(store[2])

\* C14: the fingerprint's date is fixed at extraction. The parser built at
\* the start of an invocation carries the clock's date of that moment, the
\* date stays the same through every later step of the invocation however
\* the clock moves, and building the parser leaves the store as it was.
C14_DateFixed ==
    [][\A p \in Procs :
          /\ (pc[p] = "idle" /\ pc'[p] = "get")
                => /\ call'[p].date = today
                   /\ store' = store
                   /\ next_id' = next_id
          /\ (pc[p] # "idle" /\ pc'[p] # "idle")
                => call'[p].date = call[p].date
      ]_vars

\* midnight has passed since an invocation that is still running built its
\* parser, and the store holds a row
C14_Witness ==
    \E p \in Procs :
       /\ InFlight(p)
       /\ call[p].date < today
       /\ store # << >>

\* C16: the date of the duplicate check is the timestamp's. The rows the
\* lookup selects are the same whatever date the parser carries, and the
\* row an invocation returns is of the timestamp's date even when the
\* parser's date is another.
C16_TimestampDate ==
    \A p \in Procs :
       /\ InFlight(p)
             => \A d \in 0..date(MaxTime) :
                   /\ Filter(store, [call[p] EXCEPT !.date = d]) = Filter(store, call[p])
                   /\ NewVisit([call[p] EXCEPT !.date = d], next_id)
                         = NewVisit(call[p], next_id)
       /\ (pc[p] = "done" /\ ret[p].kind = "UserVisit")
             => date(ret[p].uv[1].timestamp) = date(call[p].timestamp)

\* an invocation whose parser's date is not its timestamp's date has found
\* the row of an earlier one, and the store still has one row only
C16_Witness ==
    \E p, q \in Procs :
       /\ p # q
       /\ Completed(p) /\ Completed(q)
       /\ call[p].date # date(call[p].timestamp)
       /\ call[q].date = date(call[q].timestamp)
       /\ ret[p].uv = ret[q].uv
       /\ Len(store) = 1

\* C15: no late creation. An invocation looks the table up once; if its
\* lookup runs when the table holds a row of its fingerprint and date, it
\* goes on to create nothing, and only an invocation whose lookup found no
\* row inserts one. So the rows of a fingerprint and date are never more than
\* the lookups that ran while it had none.
C15_NoLateCreation ==
    [][/\ \A p \in Procs :
             /\ (pc'[p] = "get" /\ pc[p] # "get") => pc[p] = "idle"
             /\ (pc[p] = "get" /\ pc'[p] # "get")
                   => /\ pc'[p] \in {"done", "create", "filter"}
                      /\ Filter(store, call[p]) # << >> => pc'[p] # "create"
                      /\ store' = store
             /\ (pc'[p] = "create" /\ pc[p] # "create")
                   => /\ pc[p] = "get"
                      /\ Filter(store, call[p]) = << >>
                      /\ call[p].request.user[1].pk \in users
                            => Misses(CallKey(call[p])) < Misses(CallKey(call[p]))'
             /\ Len(store') > Len(store) => \E q \in Procs : pc[q] = "create"
       /\ \A r \in Rows(store) : Len(RowsOf(store, RowKey(r))) <= Misses(RowKey(r))
      ]_vars

\* two racing invocations have each inserted a row of one fingerprint and
\* date, and a third, whose lookup found both, goes on without creating
C15_Witness ==
    \E p \in Procs :
       /\ pc[p] = "filter"
       /\ Len(Filter(store, call[p])) = 2
       /\ Misses(CallKey(call[p])) = 2

\* ---------------------------------------------------------------- parsers: properties
\* the parsers named k and l have both been read
BothRead(k, l) == k # l /\ reads[k] # None /\ reads[l] # None

\* the characters of x before its first comma
RECURSIVE FirstEntry(_)
FirstEntry(x) ==
    IF x = << >> \/ Head(x) = "," THEN << >>
    ELSE <<Head(x)>> \o FirstEntry(Tail(x))

\* C11: fingerprint equivalence. Two parsers have the same hash exactly when
\* their user id, date, session_key, remote_addr and ua_string are all the
\* same.
C11_Equivalence ==
    \A k, l \in ParserNames :
       BothRead(k, l)
          => LET x == reads[k][1]
                 y == reads[l][1]
             IN (x.hash = y.hash)
                   <=> /\ x.user.pk = y.user.pk
                       /\ x.date = y.date
                       /\ x.session_key = y.session_key
                       /\ x.remote_addr = y.remote_addr
                       /\ x.ua_string = y.ua_string

\* C12: remote_addr is the first comma-separated entry of X-Forwarded-For
\* when the header is there and not empty, otherwise REMOTE_ADDR, otherwise
\* ""; with the header "a, b" it is "a" whatever REMOTE_ADDR is.
C12_RemoteAddr ==
    \A k \in ParserNames :
       reads[k] # None
          => LET request == parsers[k][1].request
                 header == request.headers.X_Forwarded_For
                 meta == request.META.REMOTE_ADDR
                 expected ==
                    IF header # None /\ header[1] # EmptyStr THEN FirstEntry(header[1])
                    ELSE IF meta # None THEN meta[1]
                    ELSE EmptyStr
             IN /\ reads[k][1].remote_addr = expected
                /\ header = Some(<<"a", ",", " ", "b">>) => reads[k][1].remote_addr = <<"a">>

\* one parser read with the header "a, b" and a REMOTE_ADDR, the other with
\* an empty header and no REMOTE_ADDR
C12_Witness ==
    /\ BothRead("x", "y")
    /\ parsers["x"][1].request.headers.X_Forwarded_For = Some(<<"a", ",", " ", "b">>)
    /\ parsers["x"][1].request.META.REMOTE_ADDR = Some(<<"b">>)
    /\ reads["x"][1].remote_addr = <<"a">>
    /\ parsers["y"][1].request.headers.X_Forwarded_For = Some(EmptyStr)
    /\ parsers["y"][1].request.META.REMOTE_ADDR = None
    /\ reads["y"][1].remote_addr = EmptyStr

\* C17: the cache key is a function of the user id alone. Two parsers have
\* the same cache key exactly when they have the same user.
C17_CacheKey ==
    \A k, l \in ParserNames :
       BothRead(k, l)
          => ((reads[k][1].cache_key = reads[l][1].cache_key)
                 <=> (reads[k][1].user.pk = reads[l][1].user.pk))

\* two parsers of one user that differ in every other field have been read
\* and have the same key, which ends in the user's pk
C17_Witness ==
    /\ BothRead("x", "y")
    /\ reads["x"][1].user.pk = 12
    /\ reads["y"][1].user.pk = 12
    /\ reads["x"][1].date # reads["y"][1].date
    /\ reads["x"][1].session_key # reads["y"][1].session_key
    /\ reads["x"][1].remote_addr # reads["y"][1].remote_addr
    /\ reads["x"][1].ua_string # reads["y"][1].ua_string
    /\ reads["x"][1].cache_key = reads["y"][1].cache_key
    /\ SubSeq(reads["x"][1].cache_key, 11, 13) = <<":", "1", "2">>

====
